---- MODULE Spec2Model ----
(***************************************************************************)
(* SmartMailer: the email processing pipeline (app/worker.py), its Store   *)
(* (app/database.py, app/models.py), the rule based classifier             *)
(* (app/email_classifier.py), the mailbox fetcher (app/email_fetcher.py)   *)
(* and the maintenance operations of the REST facade (app/api.py).         *)
(***************************************************************************)
EXTENDS Integers, Sequences, FiniteSets, TLC

VARIABLES
    settings,     \* app.config.settings, as seen by the classifier and the worker
    cls_in,       \* the email_data dict handed to classify_email
    cls_out,      \* what classify_email gave back for cls_in
    emails,       \* table "emails": the set of Email rows
    logs,         \* table "processing_logs": ProcessingLog rows in insertion order
    connected,    \* EmailFetcher.connected
    running,      \* SmartMailerWorker.running
    wpc,          \* position of the thread that called SmartMailerWorker.start
    run,          \* per calling thread: the activation of process_emails
    api,          \* the request the REST facade is serving
    runs_started, \* number of process_emails activations begun so far
    api_calls,    \* number of REST requests served so far
    sink,         \* ActionSink history: every send_auto_reply / notify_important_email call
    stopped,      \* history: SmartMailerWorker.stop() has been called in this process
    startup       \* history: the results of the tests _test_connections ran, in order

vars == <<settings, cls_in, cls_out, emails, logs, connected, running, wpc,
          run, api, runs_started, api_calls, sink, stopped, startup>>

(***************************************************************************)
(* Strings.  Python str operations used by the classifier, computed on     *)
(* real character strings.                                                 *)
(***************************************************************************)
Min(a, b) == IF a < b THEN a ELSE b

UpperChars == "ABCDEFGHIJKLMNOPQRSTUVWXYZ"
LowerChars == "abcdefghijklmnopqrstuvwxyz"
DigitChars == "0123456789_"

CharAt(s, i) == SubSeq(s, i, i)

InChars(c, alphabet) == \E i \in 1..Len(alphabet) : CharAt(alphabet, i) = c

\* one character of str.lower()
LowerChar(c) ==
    IF InChars(c, UpperChars)
    THEN LET i == CHOOSE j \in 1..Len(UpperChars) : CharAt(UpperChars, j) = c
         IN  CharAt(LowerChars, i)
    ELSE c

\* str.lower()
RECURSIVE Lower(_)
Lower(s) ==
    IF Len(s) = 0 THEN ""
    ELSE IF Len(s) = 1 THEN LowerChar(s)
    ELSE LET h == Len(s) \div 2
         IN  Lower(SubSeq(s, 1, h)) \o Lower(SubSeq(s, h + 1, Len(s)))

\* s[:n]
Prefix(s, n) == SubSeq(s, 1, Min(n, Len(s)))

\* k in s
Contains(s, k) ==
    \E i \in 1..(Len(s) - Len(k) + 1) : SubSeq(s, i, i + Len(k) - 1) = k

\* \w of the re module, on ASCII text
IsWordChar(c) ==
    InChars(c, LowerChars) \/ InChars(c, UpperChars) \/ InChars(c, DigitChars)

\* \b between s[i-1] and s[i] (1-based, i in 1..Len(s)+1)
WordBoundary(s, i) ==
    LET before == i > 1 /\ IsWordChar(CharAt(s, i - 1))
        after  == i <= Len(s) /\ IsWordChar(CharAt(s, i))
    IN  before # after

\* re.search(r'\b(a1|a2|...)\b', s, re.IGNORECASE)
ReSearchWords(alts, s) ==
    LET t == Lower(s)
    IN  \E a \in alts :
          \E i \in 1..(Len(t) - Len(a) + 1) :
             /\ SubSeq(t, i, i + Len(a) - 1) = a
             /\ WordBoundary(t, i)
             /\ WordBoundary(t, i + Len(a))

\* index of the first occurrence of character c in s, 0 when absent
FirstIndex(s, c) ==
    IF InChars(c, s)
    THEN CHOOSE i \in 1..Len(s) :
            CharAt(s, i) = c /\ \A j \in 1..(i - 1) : CharAt(s, j) # c
    ELSE 0

\* s.split(c)[1], for s containing c
SplitSecond(s, c) ==
    LET p    == FirstIndex(s, c)
        rest == SubSeq(s, p + 1, Len(s))
        q    == FirstIndex(rest, c)
    IN  IF q = 0 THEN rest ELSE SubSeq(rest, 1, q - 1)

\* a run of n filler characters
RECURSIVE Pad(_)
Pad(n) ==
    IF n = 0 THEN ""
    ELSE IF n % 2 = 0 THEN LET h == Pad(n \div 2) IN h \o h
    ELSE "x" \o Pad(n - 1)

(***************************************************************************)
(* email_data dictionaries.  A field is a str, a value of another type     *)
(* (None, an email.header.Header, ...) or absent from the dict.            *)
(***************************************************************************)
Str(s)  == [kind |-> "str", val |-> s]
NonStr  == [kind |-> "nonstr", val |-> ""]
Missing == [kind |-> "missing", val |-> ""]

\* dict.get(key, default)
DictGet(f, default) == IF f.kind = "missing" THEN Str(default) ELSE f

\* the exception outcome of an operation
Raise == "<exception>"

(***************************************************************************)
(* Classifier (app/email_classifier.py)                                    *)
(***************************************************************************)
ContentPreviewLen == 500
NormalPreviewLen  == 200

urgent_patterns ==
    << {"urgent", "asap", "as soon as possible"},
       {"deadline", "due date"},
       {"entretien", "interview"},
       {"recrutement", "recruitment", "hiring"},
       {"rh", "hr", "human resources"} >>

\* the alternatives spelled with non-ASCII characters cannot match the ASCII
\* texts of this model and are left out
normal_patterns ==
    << {"newsletter", "news letter"},
       {"marketing", "promotion", "promo"},
       {"advertisement", "ads"},
       {"unsubscribe"},
       {"offre", "offer", "deal"} >>

important_domains == <<"company.com", "entreprise.fr", "hr.com", "recruitment.com">>
normal_domains    == <<"newsletter.com", "marketing.com", "promo.com", "ads.com",
                       "noreply.com", "no-reply.com">>

AnyIn(list, s) == \E i \in DOMAIN list : Contains(s, list[i])

_is_important_email_NoSenders(cfg, subject, sender, content) ==
    LET content_preview == Prefix(content, ContentPreviewLen)
    IN  \/ AnyIn(cfg.important_keywords, subject)
        \/ AnyIn(cfg.important_keywords, content_preview)
        \/ \E p \in DOMAIN urgent_patterns :
              ReSearchWords(urgent_patterns[p], subject \o " " \o content_preview)

_is_important_email(cfg, subject, sender, content) ==
    LET content_preview == Prefix(content, ContentPreviewLen)
    IN  \/ AnyIn(cfg.important_senders, sender)
        \/ AnyIn(cfg.important_keywords, subject)
        \/ AnyIn(cfg.important_keywords, content_preview)
        \/ \E p \in DOMAIN urgent_patterns :
              ReSearchWords(urgent_patterns[p], subject \o " " \o content_preview)

_is_normal_email(cfg, subject, sender, content) ==
    \/ \E i \in DOMAIN cfg.normal_keywords :
          \/ Contains(subject, cfg.normal_keywords[i])
          \/ Contains(Prefix(content, NormalPreviewLen), cfg.normal_keywords[i])
    \/ \E p \in DOMAIN normal_patterns :
          ReSearchWords(normal_patterns[p],
                        subject \o " " \o Prefix(content, NormalPreviewLen))

_classify_by_sender_domain(sender) ==
    IF InChars("@", sender)
    THEN LET domain == Lower(SplitSecond(sender, "@"))
         IN  IF AnyIn(important_domains, domain) THEN "important"
             ELSE IF AnyIn(normal_domains, domain) THEN "normal"
             ELSE "normal"
    ELSE "normal"

classify_try_NormalFirst(cfg, email_data) ==
    LET fs == DictGet(email_data.subject, "")
        fn == DictGet(email_data.sender, "")
        fc == DictGet(email_data.content, "")
    IN  IF fs.kind # "str" \/ fn.kind # "str" \/ fc.kind # "str"
        THEN Raise
        ELSE LET subject == Lower(fs.val)
                 sender  == Lower(fn.val)
                 content == Lower(fc.val)
             IN  IF _is_normal_email(cfg, subject, sender, content)
                 THEN "normal"
                 ELSE IF _is_important_email(cfg, subject, sender, content)
                 THEN "important"
                 ELSE _classify_by_sender_domain(sender)

\* the body of the try block of classify_email
classify_try(cfg, email_data) ==
    LET fs == DictGet(email_data.subject, "")
        fn == DictGet(email_data.sender, "")
        fc == DictGet(email_data.content, "")
    IN  IF fs.kind # "str" \/ fn.kind # "str" \/ fc.kind # "str"
        THEN Raise      \* AttributeError: no attribute 'lower'
        ELSE LET subject == Lower(fs.val)
                 sender  == Lower(fn.val)
                 content == Lower(fc.val)
             IN  IF _is_important_email(cfg, subject, sender, content)
                 THEN "important"
                 ELSE IF _is_normal_email(cfg, subject, sender, content)
                 THEN "normal"
                 ELSE _classify_by_sender_domain(sender)

classify_email_NoExcept(cfg, email_data) == classify_try(cfg, email_data)

classify_email(cfg, email_data) ==
    LET r == classify_try(cfg, email_data)
    IN  IF r = Raise THEN "normal" ELSE r

(***************************************************************************)
(* Configuration (app/config.py)                                           *)
(***************************************************************************)
\* Settings.parse_comma_separated: split on ',', strip, lower, drop empties.
\* The lists below are already in that normal form.
default_important_keywords ==
    <<"urgent", "important", "entretien", "rh", "recrutement", "deadline", "asap">>
default_normal_keywords == <<"newsletter", "marketing", "promotion">>
max_emails_per_batch == 50

Settings(senders, auto_reply) ==
    [ important_keywords   |-> default_important_keywords,
      important_senders    |-> senders,
      normal_keywords      |-> default_normal_keywords,
      auto_reply_enabled   |-> auto_reply,
      max_emails_per_batch |-> max_emails_per_batch ]

(***************************************************************************)
(* Mailbox (app/email_fetcher.py)                                          *)
(***************************************************************************)
NumMessages == 2      \* messages the IMAP search finds inside the look-back window

\* str(msg_id)
RECURSIVE IntToStr(_)
IntToStr(n) ==
    IF n < 10 THEN CharAt("0123456789", n + 1)
    ELSE IntToStr(n \div 10) \o CharAt("0123456789", (n % 10) + 1)

\* client.search(['SINCE', ...]): message ids, oldest first
SearchResult == [i \in 1..NumMessages |-> i]

\* _parse_email(msg_id)
_parse_email(msg_id) ==
    IF msg_id % 2 = 1
    THEN [ uid           |-> IntToStr(msg_id),
           subject       |-> Str("Newsletter hebdomadaire"),
           sender        |-> Str("newsletter@shop.com"),
           recipient     |-> Str("me@example.com"),
           date_received |-> -10,      \* the Date header, in days from now
           content       |-> Str("promo -50%") ]
    ELSE [ uid           |-> IntToStr(msg_id),
           subject       |-> Str("URGENT: entretien demain"),
           sender        |-> Str("hr@company.com"),
           recipient     |-> Str("me@example.com"),
           date_received |-> 0,
           content       |-> Str("Nous avons un entretien urgent demain matin") ]

\* the email_data dict of the message whose uid is uid
MessageOfUid(uid) == _parse_email(CHOOSE i \in 1..NumMessages : IntToStr(i) = uid)

Uids == { IntToStr(i) : i \in 1..NumMessages }

\* messages[-n:]
LastN(seq, n) ==
    IF n = 0 \/ n >= Len(seq) THEN seq
    ELSE SubSeq(seq, Len(seq) - n + 1, Len(seq))

(***************************************************************************)
(* Store (app/models.py, app/database.py)                                  *)
(***************************************************************************)
Max(S) == CHOOSE x \in S : \A y \in S : y <= x

\* INTEGER PRIMARY KEY of the default SQLite database: largest rowid + 1
NextId(rows) == IF rows = {} THEN 1 ELSE Max({ r.id : r \in rows }) + 1

\* db.query(Email).filter(Email.uid == uid): the matching rows
RowsByUid(rows, uid) == { r \in rows : r.uid = uid }
RowsById(rows, id)   == { r \in rows : r.id = id }

HasRecord(uid) == RowsByUid(emails, uid) # {}

\* Email(uid=..., subject=..., sender=..., recipient=..., date_received=...,
\*       content=..., classification=..., auto_reply_sent=False,
\*       notification_sent=False) for the email_data of the message with this uid
NewEmail(rows, uid, classification) ==
    LET email_data == MessageOfUid(uid)
    IN  [ id |-> NextId(rows), uid |-> uid,
          subject       |-> DictGet(email_data.subject, "").val,
          sender        |-> DictGet(email_data.sender, "").val,
          recipient     |-> DictGet(email_data.recipient, "").val,
          date_received |-> email_data.date_received,
          content       |-> DictGet(email_data.content, "").val,
          classification |-> classification,
          auto_reply_sent |-> FALSE, notification_sent |-> FALSE ]

\* db.add(email_record); db.commit() under the UNIQUE constraint on Email.uid:
\* ok and the rows after the commit, or not ok (IntegrityError) and the rows as
\* they were
InsertEmail_NoUnique(rows, uid, classification) ==
    [ok |-> TRUE, rows |-> rows \cup { NewEmail(rows, uid, classification) }]

InsertEmail(rows, uid, classification) ==
    IF RowsByUid(rows, uid) # {}
    THEN [ok |-> FALSE, rows |-> rows]
    ELSE [ok |-> TRUE, rows |-> rows \cup { NewEmail(rows, uid, classification) }]

SetFlag_ClearContent(rows, id, flag) ==
    { IF r.id = id
      THEN (IF flag = "auto_reply_sent"
            THEN [r EXCEPT !.auto_reply_sent = TRUE, !.content = ""]
            ELSE [r EXCEPT !.notification_sent = TRUE, !.content = ""])
      ELSE r : r \in rows }

\* update_email_status(email_id, <flag>=True), after the row was found
SetFlag(rows, id, flag) ==
    { IF r.id = id
      THEN (IF flag = "auto_reply_sent"
            THEN [r EXCEPT !.auto_reply_sent = TRUE]
            ELSE [r EXCEPT !.notification_sent = TRUE])
      ELSE r : r \in rows }

\* get_processing_stats(): the five counts over the rows of the table
get_processing_stats(rows) ==
    [ total_emails       |-> Cardinality(rows),
      normal_emails      |-> Cardinality({ r \in rows : r.classification = "normal" }),
      important_emails   |-> Cardinality({ r \in rows : r.classification = "important" }),
      auto_replies_sent  |-> Cardinality({ r \in rows : r.auto_reply_sent }),
      notifications_sent |-> Cardinality({ r \in rows : r.notification_sent }) ]

\* ProcessingLog(email_id, action, status)
LogEntry(id, action, status) == [email_id |-> id, action |-> action, status |-> status]

(***************************************************************************)
(* Environment faults.  F is the set of operations that may fail: "source" *)
(* (IMAP calls), "read" (database queries), "write" (commits on the emails *)
(* table), "log" (commits on processing_logs), "sink" (SMTP, Telegram).    *)
(* Two more kinds are met by the start-up tests only: "bot" (the Telegram  *)
(* getMe call) and "stats" (the count queries of get_processing_stats).    *)
(***************************************************************************)
AllFaults == {"source", "read", "write", "log", "sink"}

StartupFaults == {"source", "sink", "bot", "stats"}

Outcomes(kind, F) == IF kind \in F THEN {TRUE, FALSE} ELSE {TRUE}

MaxRuns == 2          \* process_emails activations explored

(***************************************************************************)
(* Worker (app/worker.py)                                                  *)
(***************************************************************************)
Ctx == {"main", "force"}   \* the thread inside start(), a thread calling force_check()

IdleRun ==
    [ pc      |-> "idle",   \* position inside process_emails
      batch   |-> <<>>,     \* emails
      i       |-> 0,        \* index of email_data in emails
      rec     |-> 0,        \* email_record.id
      cls     |-> "",       \* classification
      sent    |-> FALSE,    \* result of the ActionSink call
      count   |-> 0,        \* processed_count
      created |-> FALSE,    \* history: save_email inserted the Record in this activation
      okmsg   |-> FALSE,    \* history: every operation on the current message succeeded
      clean   |-> {},       \* history: uids newly processed here without any failure
      exit     |-> "",      \* history: how the last activation left process_emails
      released |-> FALSE ]  \* history: the last activation called fetcher.disconnect()

InFlight(c) == run[c].pc # "idle"

CurMsg(c) == _parse_email(run[c].batch[run[c].i])
CurUid(c) == CurMsg(c).uid

\* _process_single_email returned: the for loop takes the next email_data
NextMsg_CountAll(r, success) ==
    [r EXCEPT !.pc = IF r.i + 1 > Len(r.batch) THEN "finish" ELSE "check",
              !.i = @ + 1,
              !.count = @ + 1,
              !.rec = 0, !.cls = "", !.sent = FALSE,
              !.created = FALSE, !.okmsg = FALSE]

NextMsg_Break(r, success) ==
    [r EXCEPT !.pc = IF r.i + 1 > Len(r.batch) \/ ~success THEN "finish" ELSE "check",
              !.i = @ + 1,
              !.count = IF success THEN @ + 1 ELSE @,
              !.rec = 0, !.cls = "", !.sent = FALSE,
              !.created = FALSE, !.okmsg = FALSE]

NextMsg(r, success) ==
    [r EXCEPT !.pc = IF r.i + 1 > Len(r.batch) THEN "finish" ELSE "check",
              !.i = @ + 1,
              !.count = IF success THEN @ + 1 ELSE @,
              !.rec = 0, !.cls = "", !.sent = FALSE,
              !.created = FALSE, !.okmsg = FALSE]

\* fetcher.disconnect() with self.connected = conn: the values self.connected
\* may have afterwards (logout() may raise, which leaves it set)
AfterDisconnect(conn, F) ==
    IF conn THEN {FALSE} \cup (IF "source" \in F THEN {TRUE} ELSE {})
    ELSE {FALSE}

\* _test_connections(): the mailbox and the SMTP test decide; the Telegram test
\* and the database test catch their own exceptions and never fail the start
_test_connections(imap_ok, smtp_ok) == imap_ok /\ smtp_ok

\* the tests _test_connections runs, in order, with what each of them met:
\* fetcher.connect(), sender.test_connection(), the 'telegram_connection'
\* result of test_all_notifications(), and the count queries of
\* get_processing_stats(); the first two return from the function when false
TestsRun(imap_ok, smtp_ok, telegram_ok, db_ok) ==
    IF ~imap_ok THEN <<FALSE>>
    ELSE IF ~smtp_ok THEN <<TRUE, FALSE>>
    ELSE <<TRUE, TRUE, telegram_ok, db_ok>>

\* entry of process_emails in thread c
Begin(c) ==
    /\ runs_started < MaxRuns
    /\ run[c].pc = "idle"
    /\ run' = [run EXCEPT ![c] = [IdleRun EXCEPT !.pc = "connect"]]
    /\ runs_started' = runs_started + 1

\* start(): _test_connections, schedule the job, set running, run the initial check
Start(F) ==
    /\ wpc = "new"
    /\ \E imap_ok \in Outcomes("source", F), smtp_ok \in Outcomes("sink", F),
          telegram_ok \in Outcomes("bot", F), db_ok \in Outcomes("stats", F) :
         /\ connected' \in (IF imap_ok THEN AfterDisconnect(TRUE, F) ELSE {FALSE})
         /\ startup' = TestsRun(imap_ok, smtp_ok, telegram_ok, db_ok)
         /\ IF _test_connections(imap_ok, smtp_ok)
            THEN /\ Begin("main")
                 /\ running' = TRUE
                 /\ wpc' = "run"
            ELSE /\ wpc' = "returned"
                 /\ UNCHANGED <<running, run, runs_started>>
    /\ UNCHANGED <<stopped, settings, cls_in, cls_out, emails, logs, api, api_calls, sink>>

\* schedule.run_pending() in the main loop finds the job due
TimerFire ==
    /\ wpc = "loop"
    /\ running
    /\ Begin("main")
    /\ wpc' = "run"
    /\ UNCHANGED <<startup, stopped, settings, cls_in, cls_out, emails, logs, connected, running,
                   api, api_calls, sink>>

\* force_check(), called from another thread
ForceCheck ==
    /\ Begin("force")
    /\ UNCHANGED <<startup, stopped, settings, cls_in, cls_out, emails, logs, connected, running,
                   wpc, api, api_calls, sink>>

Connect_Ignore(c, F) ==
    /\ run[c].pc = "connect"
    /\ \E ok \in Outcomes("source", F) :
         /\ connected' = ok
         /\ run' = [run EXCEPT ![c].pc = "fetch"]
         /\ wpc' = wpc
    /\ UNCHANGED <<startup, stopped, settings, cls_in, cls_out, emails, logs, running, api,
                   runs_started, api_calls, sink>>

Connect_Raise(c, F) ==
    /\ run[c].pc = "connect"
    /\ \E ok \in Outcomes("source", F) :
         IF ok
         THEN /\ connected' = TRUE
              /\ run' = [run EXCEPT ![c].pc = "fetch"]
              /\ wpc' = wpc
              /\ running' = running
         ELSE /\ connected' = FALSE
              /\ run' = [run EXCEPT ![c] = [IdleRun EXCEPT !.exit = "no_connection"]]
              /\ wpc' = IF c = "main" THEN "returned" ELSE wpc
              /\ running' = (c # "main" /\ running)
    /\ UNCHANGED <<startup, stopped, settings, cls_in, cls_out, emails, logs, api,
                   runs_started, api_calls, sink>>

\* process_emails: self.fetcher.connect()
Connect(c, F) ==
    /\ run[c].pc = "connect"
    /\ \E ok \in Outcomes("source", F) :
         IF ok
         THEN /\ connected' = TRUE
              /\ run' = [run EXCEPT ![c].pc = "fetch"]
              /\ wpc' = wpc
         ELSE /\ connected' = FALSE
              /\ run' = [run EXCEPT ![c] = [IdleRun EXCEPT !.exit = "no_connection"]]
              /\ wpc' = IF c = "main" THEN "loop" ELSE wpc
    /\ UNCHANGED <<startup, stopped, settings, cls_in, cls_out, emails, logs, running, api,
                   runs_started, api_calls, sink>>

Fetch_OutsideTry(c, F) ==
    /\ run[c].pc = "fetch"
    /\ \E conn_ok \in (IF connected THEN {TRUE} ELSE Outcomes("source", F)),
          search_ok \in Outcomes("source", F) :
         /\ connected' = conn_ok
         /\ IF conn_ok /\ search_ok
            THEN /\ run' = [run EXCEPT
                              ![c].batch = LastN(SearchResult, settings.max_emails_per_batch),
                              ![c].i = 1,
                              ![c].pc = "check"]
                 /\ wpc' = wpc
            ELSE /\ run' = [run EXCEPT ![c] = [IdleRun EXCEPT !.exit = "no_emails"]]
                 /\ wpc' = IF c = "main" THEN "loop" ELSE wpc
    /\ UNCHANGED <<startup, stopped, settings, cls_in, cls_out, emails, logs, running, api,
                   runs_started, api_calls, sink>>

\* process_emails: emails = self.fetcher.fetch_new_emails(since_days=1)
Fetch(c, F) ==
    /\ run[c].pc = "fetch"
    /\ \E conn_ok \in (IF connected THEN {TRUE} ELSE Outcomes("source", F)),
          search_ok \in Outcomes("source", F) :
         LET fetched == IF conn_ok /\ search_ok
                        THEN LastN(SearchResult, settings.max_emails_per_batch)
                        ELSE <<>>
         IN  /\ connected' = conn_ok
             /\ run' = [run EXCEPT ![c].batch = fetched,
                                   ![c].i = IF fetched = <<>> THEN 0 ELSE 1,
                                   ![c].pc = IF fetched = <<>> THEN "finish" ELSE "check"]
    /\ UNCHANGED <<startup, stopped, settings, cls_in, cls_out, emails, logs, running, wpc, api,
                   runs_started, api_calls, sink>>

\* the settings the worker may be started with
PipelineConfigs == { Settings(<<>>, b) : b \in BOOLEAN }

\* MAX_EMAILS_PER_BATCH values around the size of the mailbox; the field is a
\* plain int without validation, 0 included
BatchSizes == 0..(NumMessages + 1)

BatchConfigs ==
    { [cfg EXCEPT !.max_emails_per_batch = n] : cfg \in PipelineConfigs, n \in BatchSizes }

\* self.classifier.classify_email(email_data) for the messages of the mailbox
classification_of ==
    [cfg \in PipelineConfigs \cup BatchConfigs |->
       [msg_id \in 1..NumMessages |-> classify_email(cfg, _parse_email(msg_id))]]

\* _process_single_email: the existence check and the classification
Check_NoSkip(c, F) ==
    /\ run[c].pc = "check"
    /\ run' = [run EXCEPT ![c].pc = "save",
                          ![c].cls = classification_of[settings][run[c].batch[run[c].i]],
                          ![c].okmsg = TRUE]
    /\ UNCHANGED <<startup, stopped, settings, cls_in, cls_out, emails, logs, connected, running,
                   wpc, api, runs_started, api_calls, sink>>

Check(c, F) ==
    /\ run[c].pc = "check"
    /\ IF DictGet(CurMsg(c).subject, "No Subject").kind # "str"
       THEN run' = [run EXCEPT ![c] = NextMsg(@, FALSE)]
       ELSE \E read_ok \in Outcomes("read", F) :
              LET existing_email == IF read_ok THEN RowsByUid(emails, CurUid(c)) ELSE {}
              IN  IF existing_email # {}
                  THEN run' = [run EXCEPT ![c] = NextMsg(@, TRUE)]
                  ELSE run' = [run EXCEPT
                                 ![c].pc = "save",
                                 ![c].cls = classification_of[settings][run[c].batch[run[c].i]],
                                        ![c].okmsg = read_ok]
    /\ UNCHANGED <<startup, stopped, settings, cls_in, cls_out, emails, logs, connected, running,
                   wpc, api, runs_started, api_calls, sink>>

save_email_NoRollback(rows, uid, classification, read_ok, write_ok) ==
    LET existing_email == IF read_ok THEN RowsByUid(rows, uid) ELSE {}
        ins == InsertEmail(rows, uid, classification)
    IN  IF existing_email # {}
        THEN [id |-> (CHOOSE r \in existing_email : TRUE).id, rows |-> rows,
              inserted |-> FALSE]
        ELSE IF write_ok /\ ins.ok
        THEN [id |-> NextId(rows), rows |-> ins.rows, inserted |-> TRUE]
        ELSE [id |-> 0, rows |-> ins.rows, inserted |-> FALSE]

\* the result of save_email(email_data, classification) on the rows of the
\* table: the id of the Email returned (0 for None) and the rows afterwards
save_email(rows, uid, classification, read_ok, write_ok) ==
    LET existing_email == IF read_ok THEN RowsByUid(rows, uid) ELSE {}
        ins == InsertEmail(rows, uid, classification)
    IN  IF existing_email # {}
        THEN [id |-> (CHOOSE r \in existing_email : TRUE).id, rows |-> rows,
              inserted |-> FALSE]
        ELSE IF write_ok /\ ins.ok
        THEN [id |-> NextId(rows), rows |-> ins.rows, inserted |-> TRUE]
        ELSE [id |-> 0, rows |-> rows, inserted |-> FALSE]

Save_NoCheck(c, F) ==
    /\ run[c].pc = "save"
    /\ \E read_ok \in Outcomes("read", F), write_ok \in Outcomes("write", F) :
         LET res == save_email(emails, CurUid(c), run[c].cls, read_ok, write_ok)
         IN  /\ emails' = res.rows
             /\ run' = [run EXCEPT ![c].pc = "logcls",
                                   ![c].rec = res.id,
                                   ![c].created = res.inserted,
                                   ![c].okmsg = @ /\ read_ok /\ res.inserted]
    /\ UNCHANGED <<startup, stopped, settings, cls_in, cls_out, logs, connected, running, wpc, api,
                   runs_started, api_calls, sink>>

\* _process_single_email: email_record = self.db.save_email(...)
Save(c, F) ==
    /\ run[c].pc = "save"
    /\ \E read_ok \in Outcomes("read", F), write_ok \in Outcomes("write", F) :
         LET res == save_email(emails, CurUid(c), run[c].cls, read_ok, write_ok)
         IN  /\ emails' = res.rows
             /\ IF res.id = 0
                THEN run' = [run EXCEPT ![c] = NextMsg(@, FALSE)]
                ELSE run' = [run EXCEPT ![c].pc = "logcls",
                                        ![c].rec = res.id,
                                        ![c].created = res.inserted,
                                        ![c].okmsg = @ /\ read_ok /\ res.inserted]
    /\ UNCHANGED <<startup, stopped, settings, cls_in, cls_out, logs, connected, running, wpc, api,
                   runs_started, api_calls, sink>>

LogCls_Silent(c, F) ==
    /\ run[c].pc = "logcls"
    /\ logs' = logs
    /\ run' = [run EXCEPT ![c].pc = "act"]
    /\ UNCHANGED <<startup, stopped, settings, cls_in, cls_out, emails, connected, running, wpc, api,
                   runs_started, api_calls, sink>>

\* _process_single_email: log_processing_action(id, 'classified', 'success', ...)
LogCls(c, F) ==
    /\ run[c].pc = "logcls"
    /\ \E log_ok \in Outcomes("log", F) :
         /\ logs' = IF log_ok
                    THEN Append(logs, LogEntry(run[c].rec, "classified", "success"))
                    ELSE logs
         /\ run' = [run EXCEPT ![c].pc = "act", ![c].okmsg = @ /\ log_ok]
    /\ UNCHANGED <<startup, stopped, settings, cls_in, cls_out, emails, connected, running, wpc, api,
                   runs_started, api_calls, sink>>

Act_AlwaysReply(c, F) ==
    /\ run[c].pc = "act"
    /\ IF run[c].cls \in {"normal", "important"}
       THEN \E ok \in Outcomes("sink", F) :
              /\ sink' = [sink EXCEPT ![CurUid(c)].pipeline = @ + 1]
              /\ run' = [run EXCEPT ![c].pc = "logact", ![c].sent = ok,
                                    ![c].okmsg = @ /\ ok]
       ELSE /\ run' = [run EXCEPT ![c] = NextMsg(@, FALSE)]
            /\ sink' = sink
    /\ UNCHANGED <<startup, stopped, settings, cls_in, cls_out, emails, logs, connected, running,
                   wpc, api, runs_started, api_calls>>

\* _process_normal_email / _process_important_email: the ActionSink call.
\* email_record.id is the value save_email returned: the reload of the
\* instance by the ORM when the attribute is read is not a fault point here.
Act(c, F) ==
    /\ run[c].pc = "act"
    /\ IF run[c].cls = "normal" /\ ~settings.auto_reply_enabled
       THEN /\ run' = [run EXCEPT ![c] = NextMsg(@, TRUE)]
            /\ sink' = sink
       ELSE IF run[c].cls \in {"normal", "important"}
       THEN \E ok \in Outcomes("sink", F) :
              /\ sink' = [sink EXCEPT ![CurUid(c)].pipeline = @ + 1]
              /\ run' = [run EXCEPT ![c].pc = "logact", ![c].sent = ok,
                                    ![c].okmsg = @ /\ ok]
       ELSE /\ run' = [run EXCEPT ![c] = NextMsg(@, FALSE)]
            /\ sink' = sink
    /\ UNCHANGED <<startup, stopped, settings, cls_in, cls_out, emails, logs, connected, running,
                   wpc, api, runs_started, api_calls>>

ActionName_Legacy(cls) == IF cls = "normal" THEN "replied" ELSE "notified"

\* the action string of the audit entries of a category
ActionName(cls) == IF cls = "normal" THEN "auto_reply_sent" ELSE "notification_sent"

update_email_status_Toggle(rows, id, flag, ok) ==
    IF ok /\ RowsById(rows, id) # {}
    THEN { IF r.id = id
           THEN (IF flag = "auto_reply_sent"
                 THEN [r EXCEPT !.auto_reply_sent = ~@]
                 ELSE [r EXCEPT !.notification_sent = ~@])
           ELSE r : r \in rows }
    ELSE rows

\* update_email_status(email_id, <flag>=True): the rows afterwards
update_email_status(rows, id, flag, ok) ==
    IF ok /\ RowsById(rows, id) # {} THEN SetFlag(rows, id, flag) ELSE rows

LogAction_Rollback(c, F) ==
    /\ run[c].pc = "logact"
    /\ \E mark_ok \in Outcomes("write", F), log_ok \in Outcomes("log", F) :
         IF run[c].sent
         THEN /\ emails' = update_email_status(emails, run[c].rec,
                                               ActionName(run[c].cls), mark_ok)
              /\ logs' = IF log_ok
                         THEN Append(logs, LogEntry(run[c].rec, ActionName(run[c].cls), "success"))
                         ELSE logs
              /\ run' = [run EXCEPT
                           ![c] = [NextMsg(@, TRUE) EXCEPT
                                     !.clean = IF run[c].okmsg /\ mark_ok /\ log_ok
                                               THEN @ \cup {CurUid(c)} ELSE @]]
         ELSE /\ emails' = emails \ RowsById(emails, run[c].rec)
              /\ logs' = IF log_ok
                         THEN Append(logs, LogEntry(run[c].rec, ActionName(run[c].cls), "error"))
                         ELSE logs
              /\ run' = [run EXCEPT ![c] = NextMsg(@, FALSE)]
    /\ UNCHANGED <<startup, stopped, settings, cls_in, cls_out, connected, running, wpc, api,
                   runs_started, api_calls, sink>>

\* _process_normal_email / _process_important_email after the ActionSink call:
\* mark_*_sent and the 'success' entry, or the 'error' entry
LogAction(c, F) ==
    /\ run[c].pc = "logact"
    /\ \E mark_ok \in Outcomes("write", F), log_ok \in Outcomes("log", F) :
         IF run[c].sent
         THEN /\ emails' = update_email_status(emails, run[c].rec,
                                               ActionName(run[c].cls), mark_ok)
              /\ logs' = IF log_ok
                         THEN Append(logs, LogEntry(run[c].rec, ActionName(run[c].cls), "success"))
                         ELSE logs
              /\ run' = [run EXCEPT
                           ![c] = [NextMsg(@, TRUE) EXCEPT
                                     !.clean = IF run[c].okmsg /\ mark_ok /\ log_ok
                                               THEN @ \cup {CurUid(c)} ELSE @]]
         ELSE /\ emails' = emails
              /\ logs' = IF log_ok
                         THEN Append(logs, LogEntry(run[c].rec, ActionName(run[c].cls), "error"))
                         ELSE logs
              /\ run' = [run EXCEPT ![c] = NextMsg(@, FALSE)]
    /\ UNCHANGED <<startup, stopped, settings, cls_in, cls_out, connected, running, wpc, api,
                   runs_started, api_calls, sink>>

\* the return value of process_emails is None on every path; what is kept is
\* the path taken
ExitPath(r) == IF r.batch = <<>> THEN "no_emails" ELSE "completed"

Finish_NoFinally(c, F) ==
    /\ run[c].pc = "finish"
    /\ connected' \in (IF run[c].batch = <<>> THEN {connected}
                       ELSE AfterDisconnect(connected, F))
    /\ run' = [run EXCEPT ![c] = [IdleRun EXCEPT !.exit = ExitPath(run[c]),
                                                 !.released = (run[c].batch # <<>>)]]
    /\ wpc' = IF c = "main" THEN "loop" ELSE wpc
    /\ UNCHANGED <<startup, stopped, settings, cls_in, cls_out, emails, logs, running, api,
                   runs_started, api_calls, sink>>

\* process_emails: the summary, the finally clause and the return
Finish(c, F) ==
    /\ run[c].pc = "finish"
    /\ connected' \in AfterDisconnect(connected, F)
    /\ run' = [run EXCEPT ![c] = [IdleRun EXCEPT !.exit = ExitPath(run[c]),
                                                 !.released = TRUE]]
    /\ wpc' = IF c = "main" THEN "loop" ELSE wpc
    /\ UNCHANGED <<startup, stopped, settings, cls_in, cls_out, emails, logs, running, api,
                   runs_started, api_calls, sink>>

RunStep(c, F) ==
    \/ Connect(c, F)
    \/ Fetch(c, F)
    \/ Check(c, F)
    \/ Save(c, F)
    \/ LogCls(c, F)
    \/ Act(c, F)
    \/ LogAction(c, F)
    \/ Finish(c, F)

(***************************************************************************)
(* Shutdown (app/worker.py start/stop, main.py)                            *)
(***************************************************************************)
\* SIGINT while the thread is inside start(): KeyboardInterrupt is not an
\* Exception, so no handler of process_emails or _process_single_email catches
\* it; the finally clause runs if the activation is past connect(), then the
\* handler of start() calls stop()
Interrupt(F) ==
    /\ wpc \in {"run", "loop"}
    /\ run' = [run EXCEPT !["main"] =
                 IF InFlight("main")
                 THEN [IdleRun EXCEPT !.exit = "interrupted",
                                      !.released = (run["main"].pc # "connect")]
                 ELSE @]
    /\ running' = FALSE
    /\ connected' \in AfterDisconnect(connected, F)
    /\ wpc' = "stopped"
    /\ stopped' = TRUE
    /\ UNCHANGED <<startup, settings, cls_in, cls_out, emails, logs, api, runs_started,
                   api_calls, sink>>

\* mode "both": worker_process.terminate() sends SIGTERM, which ends the worker
\* process where it stands; no handler and no finally clause runs
Terminate ==
    /\ wpc \in {"run", "loop"}
    /\ run' = [run EXCEPT !["main"] =
                 IF InFlight("main") THEN [IdleRun EXCEPT !.exit = "killed"] ELSE @]
    /\ wpc' = "killed"
    /\ UNCHANGED <<startup, stopped, settings, cls_in, cls_out, emails, logs, connected, running,
                   api, runs_started, api_calls, sink>>

\* stop(), called by another thread while the thread inside start() goes on
Stop(F) ==
    /\ wpc \in {"run", "loop"}
    /\ ~stopped
    /\ running' = FALSE
    /\ connected' \in AfterDisconnect(connected, F)
    /\ stopped' = TRUE
    /\ UNCHANGED <<startup, settings, cls_in, cls_out, emails, logs, wpc, run, api,
                   runs_started, api_calls, sink>>

\* start(): the main loop finds self.running false and start() returns
LoopExit ==
    /\ wpc = "loop"
    /\ ~running
    /\ wpc' = "returned"
    /\ UNCHANGED <<startup, stopped, settings, cls_in, cls_out, emails, logs, connected,
                   running, run, api, runs_started, api_calls, sink>>

\* "python main.py worker" again after the process has ended: run_worker()
\* builds a new SmartMailerWorker on the same database
Restart ==
    /\ wpc \in {"stopped", "killed", "returned"}
    /\ wpc' = "new"
    /\ running' = FALSE
    /\ connected' = FALSE
    /\ stopped' = FALSE
    /\ startup' = <<>>
    /\ run' = [c \in Ctx |-> IdleRun]
    /\ UNCHANGED <<settings, cls_in, cls_out, emails, logs, api, runs_started,
                   api_calls, sink>>

(***************************************************************************)
(* REST facade (app/api.py): the operations that write                     *)
(***************************************************************************)
MaxApiCalls == 1      \* REST requests explored

IdleApi ==
    [ pc      |-> "idle",   \* position inside the handler
      op      |-> "",       \* the last request: "resend", "delete" or "cleanup"
      id      |-> 0,        \* email_id
      uid     |-> "",       \* email.uid of the row found
      days    |-> 0,        \* days
      resp    |-> 0,        \* HTTP status of the response
      deleted |-> 0 ]       \* deleted_count of the response

\* the response of a request on email_id
Response(op, email_id, status) ==
    [IdleApi EXCEPT !.op = op, !.id = email_id, !.resp = status]

\* the email_id values a request may carry: every id in use and one unknown id
EmailIds == { r.id : r \in emails } \cup { NextId(emails) }

ResendBegin_AnyCategory(email_id, F) ==
    /\ api.pc = "idle"
    /\ api_calls < MaxApiCalls
    /\ api_calls' = api_calls + 1
    /\ \E read_ok \in Outcomes("read", F) :
         LET found == RowsById(emails, email_id)
         IN  IF ~read_ok
             THEN api' = Response("resend", email_id, 500)
             ELSE IF found = {}
             THEN api' = Response("resend", email_id, 404)
             ELSE api' = [IdleApi EXCEPT !.pc = "rs_notify", !.id = email_id,
                                         !.op = "resend",
                                         !.uid = (CHOOSE r \in found : TRUE).uid]
    /\ UNCHANGED <<startup, stopped, settings, cls_in, cls_out, emails, logs, connected, running,
                   wpc, run, runs_started, sink>>

\* resend_notification: look the row up, reject unknown ids and 'normal' rows
ResendBegin(email_id, F) ==
    /\ api.pc = "idle"
    /\ api_calls < MaxApiCalls
    /\ api_calls' = api_calls + 1
    /\ \E read_ok \in Outcomes("read", F) :
         LET found == RowsById(emails, email_id)
         IN  IF ~read_ok
             THEN api' = Response("resend", email_id, 500)
             ELSE IF found = {}
             THEN api' = Response("resend", email_id, 404)
             ELSE IF (CHOOSE r \in found : TRUE).classification # "important"
             THEN api' = Response("resend", email_id, 400)
             ELSE api' = [IdleApi EXCEPT !.pc = "rs_notify", !.id = email_id,
                                         !.op = "resend",
                                         !.uid = (CHOOSE r \in found : TRUE).uid]
    /\ UNCHANGED <<startup, stopped, settings, cls_in, cls_out, emails, logs, connected, running,
                   wpc, run, runs_started, sink>>

\* resend_notification: notification_manager.notify_important_email(email_data)
ResendNotify(F) ==
    /\ api.pc = "rs_notify"
    /\ sink' = [sink EXCEPT ![api.uid].resend = @ + 1]
    /\ \E ok \in Outcomes("sink", F), log_ok \in Outcomes("log", F) :
         IF ok
         THEN /\ api' = [api EXCEPT !.pc = "rs_mark"]
              /\ logs' = logs
         ELSE /\ api' = Response("resend", api.id, 500)
              /\ logs' = IF log_ok
                         THEN Append(logs, LogEntry(api.id, "notification_resent", "error"))
                         ELSE logs
    /\ UNCHANGED <<startup, stopped, settings, cls_in, cls_out, emails, connected, running, wpc,
                   run, runs_started, api_calls>>

\* resend_notification: mark_notification_sent and the 'success' entry
ResendMark(F) ==
    /\ api.pc = "rs_mark"
    /\ \E mark_ok \in Outcomes("write", F), log_ok \in Outcomes("log", F) :
         /\ emails' = update_email_status(emails, api.id, "notification_sent", mark_ok)
         /\ logs' = IF log_ok
                    THEN Append(logs, LogEntry(api.id, "notification_resent", "success"))
                    ELSE logs
    /\ api' = Response("resend", api.id, 200)
    /\ UNCHANGED <<startup, stopped, settings, cls_in, cls_out, connected, running, wpc, run,
                   runs_started, api_calls, sink>>

DeleteEmail_Cascade(email_id, F) ==
    /\ api.pc = "idle"
    /\ api_calls < MaxApiCalls
    /\ api_calls' = api_calls + 1
    /\ \E ok \in Outcomes("write", F) :
         LET found == RowsById(emails, email_id)
             NotOf(e) == e.email_id # email_id
         IN  IF ~ok
             THEN api' = Response("delete", email_id, 500) /\ emails' = emails
                  /\ logs' = logs
             ELSE IF found = {}
             THEN api' = Response("delete", email_id, 404) /\ emails' = emails
                  /\ logs' = logs
             ELSE api' = Response("delete", email_id, 200) /\ emails' = emails \ found
                  /\ logs' = SelectSeq(logs, NotOf)
    /\ UNCHANGED <<startup, stopped, settings, cls_in, cls_out, connected, running, wpc, run,
                   runs_started, sink>>

\* delete_email
DeleteEmail(email_id, F) ==
    /\ api.pc = "idle"
    /\ api_calls < MaxApiCalls
    /\ api_calls' = api_calls + 1
    /\ \E ok \in Outcomes("write", F) :
         LET found == RowsById(emails, email_id)
         IN  IF ~ok
             THEN api' = Response("delete", email_id, 500) /\ emails' = emails
             ELSE IF found = {}
             THEN api' = Response("delete", email_id, 404) /\ emails' = emails
             ELSE api' = Response("delete", email_id, 200) /\ emails' = emails \ found
    /\ UNCHANGED <<startup, stopped, settings, cls_in, cls_out, logs, connected, running, wpc, run,
                   runs_started, sink>>

\* days between Email.date_received (the Date header of the message) and the
\* moment of the sweep: messages with an odd id carry a date ten days back
SweepAgeDays(uid) ==
    IF \E i \in 1..NumMessages : i % 2 = 1 /\ IntToStr(i) = uid THEN 10 ELSE 0

\* the rows with Email.date_received < cutoff_date
OlderThan(rows, days) == { r \in rows : SweepAgeDays(r.uid) > days }

\* DatabaseManager.cleanup_old_emails(days): database.py imports datetime only,
\* so evaluating timedelta(days=days) raises NameError inside the try block;
\* the handler rolls back and returns 0
cleanup_old_emails(rows, days) == [rows |-> rows, count |-> 0]

\* POST /maintenance/cleanup
Cleanup(days) ==
    /\ api.pc = "idle"
    /\ api_calls < MaxApiCalls
    /\ api_calls' = api_calls + 1
    /\ LET res == cleanup_old_emails(emails, days)
       IN  /\ emails' = res.rows
           /\ api' = [IdleApi EXCEPT !.op = "cleanup", !.days = days,
                                     !.resp = 200, !.deleted = res.count]
    /\ UNCHANGED <<startup, stopped, settings, cls_in, cls_out, logs, connected, running, wpc, run,
                   runs_started, sink>>

(***************************************************************************)
(* Specifications                                                          *)
(***************************************************************************)
NoMsg == [uid |-> "", subject |-> Missing, sender |-> Missing, content |-> Missing]

InitSystem ==
    /\ cls_in = NoMsg
    /\ cls_out = ""
    /\ emails = {}
    /\ logs = <<>>
    /\ connected = FALSE
    /\ running = FALSE
    /\ wpc = "new"
    /\ run = [c \in Ctx |-> IdleRun]
    /\ api = IdleApi
    /\ runs_started = 0
    /\ api_calls = 0
    /\ sink = [u \in Uids |-> [pipeline |-> 0, resend |-> 0]]
    /\ stopped = FALSE
    /\ startup = <<>>

Init ==
    /\ settings \in PipelineConfigs
    /\ InitSystem

\* the thread inside start(): start-up, the scheduled runs and their steps
WorkerNext(F) ==
    \/ Start(F)
    \/ TimerFire
    \/ RunStep("main", F)

\* a thread calling force_check()
ForceNext(F) ==
    \/ ForceCheck
    \/ RunStep("force", F)

\* the signals that end the worker process
ShutdownNext(F) ==
    \/ Interrupt(F)
    \/ Terminate

\* another thread of the worker process stops the worker
StopNext(F) ==
    \/ Stop(F)
    \/ LoopExit

\* the REST facade process
ApiNext(F) ==
    \/ \E email_id \in EmailIds : ResendBegin(email_id, F)
    \/ ResendNotify(F)
    \/ ResendMark(F)
    \/ \E email_id \in EmailIds : DeleteEmail(email_id, F)
    \/ \E days \in {1, 30} : Cleanup(days)

\* the worker process: start() and the scheduled runs, one after the other;
\* every operation may fail
Next == WorkerNext(AllFaults)
Spec == Init /\ [][Next]_vars

\* the worker process with a database that works; mailbox and ActionSink may fail
NextReliable == WorkerNext({"source", "sink"})
SpecReliable == Init /\ [][NextReliable]_vars

\* the worker process with failing ActionSink calls, queries and commits on the
\* emails table
NextIsolation == WorkerNext({"sink", "read", "write"})
SpecIsolation == Init /\ [][NextIsolation]_vars

\* the worker process and a second thread calling force_check()
NextForce == WorkerNext(AllFaults) \/ ForceNext(AllFaults)
SpecForce == Init /\ [][NextForce]_vars

\* the worker process and the REST facade process on the same database, with
\* failing queries and failing Telegram pushes
NextApi == WorkerNext({"read"}) \/ ApiNext({"read", "sink"})
SpecApi == Init /\ [][NextApi]_vars

\* the REST facade process with every operation of its own failing, next to a
\* worker process whose ActionSink may fail
NextFacade == WorkerNext({"sink"}) \/ ApiNext(AllFaults)
SpecFacade == Init /\ [][NextFacade]_vars

\* the worker process and its shutdown signals; mailbox and ActionSink may fail
NextShutdown == WorkerNext({"source", "sink"}) \/ ShutdownNext({"source", "sink"})
SpecShutdown == Init /\ [][NextShutdown]_vars

\* the worker process with a second thread that calls force_check() and stop()
NextStop == WorkerNext({"source"}) \/ ForceNext({"source"}) \/ StopNext({"source"})
SpecStop == Init /\ [][NextStop]_vars

\* the worker process, the signals that end it, and its restart
NextCrash == WorkerNext({}) \/ ShutdownNext({}) \/ Restart
SpecCrash == Init /\ [][NextCrash]_vars

\* the worker process with a database and an ActionSink that fail during the
\* first run only
NextRetry == WorkerNext(IF runs_started <= 1 THEN {"read", "write", "sink"} ELSE {})
SpecRetry == Init /\ [][NextRetry]_vars

\* the maintenance operations of the REST facade
MaintNext(F) ==
    \/ \E email_id \in EmailIds : DeleteEmail(email_id, F)
    \/ \E days \in {1, 30} : Cleanup(days)

\* the worker process, a second thread calling force_check() and maintenance
\* requests, with nothing failing
NextOverlap == WorkerNext({}) \/ ForceNext({}) \/ MaintNext({})
SpecOverlap == Init /\ [][NextOverlap]_vars

\* the REST facade with failing Telegram pushes and failing commits on the
\* emails table, next to a worker process where nothing fails
NextResend == WorkerNext({}) \/ ApiNext({"sink", "write"})
SpecResend == Init /\ [][NextResend]_vars

\* the worker process and maintenance requests, with nothing failing
NextMaint == WorkerNext({}) \/ MaintNext({})
SpecMaint == Init /\ [][NextMaint]_vars

\* the worker process with failing start-up tests, mailbox and ActionSink
NextStartup == WorkerNext(StartupFaults)
SpecStartup == Init /\ [][NextStartup]_vars

\* the worker process under every batch size, with a mailbox that may fail
InitBatch ==
    /\ settings \in BatchConfigs
    /\ InitSystem

NextBatch == WorkerNext({"source"})
SpecBatch == InitBatch /\ [][NextBatch]_vars

(***************************************************************************)
(* Classifier inputs                                                       *)
(***************************************************************************)
TestSubjects ==
    { Str("URGENT: entretien demain"), Str("Newsletter hebdomadaire"),
      Str("Hello"), Str("Special offer"), Str("payment due"),
      Str("Rhone valley"), Str(""), NonStr, Missing }

TestSenders ==
    { Str("hr@company.com"), Str("newsletter@shop.com"), Str("Boss@Corp.com"),
      Str("a@b@company.com"), Str("nobody"), Str("x@promo.com"),
      Str("bob@mail.entreprise.fr"), NonStr, Missing }

TestContents ==
    { Str(""), Str("promo -50%"), Str("date is tomorrow"),
      Str(Pad(494) \o "urgent"), Str(Pad(495) \o "urgent"),
      Str(Pad(190) \o "newsletter"), Str(Pad(191) \o "newsletter"),
      Str("Please UNSUBSCRIBE here"), NonStr, Missing }

TestMessages ==
    [uid : {"t"}, subject : TestSubjects, sender : TestSenders, content : TestContents]

SenderConfigs == { <<>>, <<"boss@corp.com">> }

InitClassify ==
    /\ settings \in { Settings(s, TRUE) : s \in SenderConfigs }
    /\ InitSystem

\* self.classifier.classify_email(email_data)
Classify ==
    /\ cls_out = ""
    /\ \E m \in TestMessages :
         /\ cls_in' = m
         /\ cls_out' = classify_email(settings, m)
    /\ UNCHANGED <<startup, stopped, settings, emails, logs, connected, running, wpc, run, api,
                   runs_started, api_calls, sink>>

NextClassify == Classify
SpecClassify == InitClassify /\ [][NextClassify]_vars

(***************************************************************************)
(* Properties                                                              *)
(***************************************************************************)
BatchUids(c) == { _parse_email(run[c].batch[k]).uid : k \in 1..Len(run[c].batch) }

\* C1: over any sequence of pipeline runs, Store and ActionSink failures
\* included, the pipeline calls the ActionSink at most once per message uid.
C1_AtMostOneDispatch ==
    \A u \in Uids : sink[u].pipeline <= 1

\* C2: a run over messages that already have a Record takes the skip path for
\* each of them: the message counts as processed and the step adds no Record,
\* appends no audit entry, changes no flag and calls no ActionSink; every uid
\* has at most one Record, and exactly one once a run has gone through its batch.
C2_SkipStep ==
    \A c \in Ctx :
       (run[c].pc = "check" /\ HasRecord(CurUid(c)) /\ run'[c] # run[c])
          => /\ run'[c].pc \in {"check", "finish"}
             /\ run'[c].count = run[c].count + 1
             /\ emails' = emails
             /\ logs' = logs
             /\ sink' = sink

C2_OneRecordPerUid ==
    /\ \A u \in Uids : Cardinality(RowsByUid(emails, u)) <= 1
    /\ \A c \in Ctx :
          (run[c].pc = "finish" /\ run[c].batch # <<>>)
             => \A u \in BatchUids(c) : Cardinality(RowsByUid(emails, u)) = 1

C2_SecondRunSkips == [](C2_OneRecordPerUid) /\ [][C2_SkipStep]_vars

\* the second run has skipped every message of a batch the first run recorded
C2_Witness ==
    /\ runs_started = 2
    /\ run["main"].pc = "finish"
    /\ Len(run["main"].batch) = NumMessages
    /\ run["main"].count = NumMessages
    /\ \A u \in Uids : sink[u].pipeline = 1

\* C3: no two rows of the emails table share a uid.
C3_UniqueUid ==
    \A r1 \in emails : \A r2 \in emails : (r1.uid = r2.uid) => (r1 = r2)

\* save_email is entered for a uid that has a row, after a REST request was served
C3_Witness ==
    /\ api_calls > 0
    /\ \E c \in Ctx : run[c].pc = "save" /\ HasRecord(CurUid(c))

\* C4: save_email for a uid that already has a Record reports a failure (gives
\* no Record back) and leaves the existing Record unchanged.
C4_SaveExistingFails ==
    [][ \A c \in Ctx :
           (run[c].pc = "save" /\ HasRecord(CurUid(c)) /\ run'[c] # run[c])
              => (run'[c].pc # "logcls" /\ emails' = emails) ]_vars

\* C5: every ActionSink call of the pipeline comes after the Record of that uid
\* was persisted, flags false, by the same run, and the uid has a Record then.
C5_ActionAfterCreate ==
    [][ \A c \in Ctx :
           (run[c].pc = "act" /\ run'[c] # run[c] /\ sink' # sink)
              => (run[c].created /\ HasRecord(CurUid(c))) ]_vars

\* C6: a failure on one message never stops the batch: when the loop is over
\* every message of the batch was attempted, and every message whose own
\* operations all succeeded has its sent flag set and its own two success
\* entries in the audit log, whatever happened to the other messages.
HasLog(id, action, status) ==
    \E k \in DOMAIN logs : logs[k] = LogEntry(id, action, status)

C6_FailureIsolation ==
    \A c \in Ctx :
       (run[c].pc = "finish" /\ run[c].batch # <<>>)
          => /\ run[c].i = Len(run[c].batch) + 1
             /\ \A u \in run[c].clean :
                   \E r \in RowsByUid(emails, u) :
                      /\ IF r.classification = "normal"
                         THEN r.auto_reply_sent ELSE r.notification_sent
                      /\ HasLog(r.id, "classified", "success")
                      /\ HasLog(r.id, ActionName(r.classification), "success")

\* the first message of the batch failed and the second went through
C6_Witness ==
    /\ runs_started = 1
    /\ run["main"].pc = "finish"
    /\ Len(run["main"].batch) >= 2
    /\ run["main"].count = Len(run["main"].batch) - 1
    /\ ~ (_parse_email(run["main"].batch[1]).uid \in run["main"].clean)
    /\ _parse_email(run["main"].batch[2]).uid \in run["main"].clean

\* C7: at most one activation of process_emails is in flight.
C7_SingleRun ==
    Cardinality({ c \in Ctx : InFlight(c) }) <= 1

\* C8: a trigger that arrives while a run is in progress starts no run.
C8_TriggerDropped ==
    [][ (\E c \in Ctx : InFlight(c)) => (runs_started' = runs_started) ]_vars

\* C9: classify_email returns 'normal' or 'important' for every message and
\* never raises; a message with a field that is not a string gets 'normal'.
Faulty(m) ==
    m.subject.kind = "nonstr" \/ m.sender.kind = "nonstr" \/ m.content.kind = "nonstr"

C9_Total ==
    (cls_out # "")
       => /\ cls_out \in {"normal", "important"}
          /\ Faulty(cls_in) => cls_out = "normal"

\* a message from an important domain whose subject is not a string
C9_Witness ==
    /\ cls_out = "normal"
    /\ cls_in.subject = NonStr
    /\ cls_in.sender = Str("hr@company.com")

\* C10 as stated: a message whose sender contains a configured important
\* sender and whose subject or first 200 body characters contain a configured
\* normal keyword is classified 'important'.
FromImportantSender(m) ==
    /\ m.sender.kind = "str"
    /\ \E k \in DOMAIN settings.important_senders :
          Contains(Lower(m.sender.val), settings.important_senders[k])

WithNormalKeyword(m) ==
    \E k \in DOMAIN settings.normal_keywords :
       \/ /\ m.subject.kind = "str"
          /\ Contains(Lower(m.subject.val), settings.normal_keywords[k])
       \/ /\ m.content.kind = "str"
          /\ Contains(Lower(Prefix(m.content.val, NormalPreviewLen)),
                      settings.normal_keywords[k])

C10_Original ==
    (cls_out # "" /\ FromImportantSender(cls_in) /\ WithNormalKeyword(cls_in))
       => cls_out = "important"

\* C10 amended: the same, for messages whose subject, sender and content are
\* strings or absent.
C10_ImportantSenderWins ==
    (cls_out # "" /\ FromImportantSender(cls_in) /\ WithNormalKeyword(cls_in)
       /\ ~Faulty(cls_in))
       => cls_out = "important"

\* an important sender's newsletter
C10_Witness ==
    /\ cls_out = "important"
    /\ cls_in.sender = Str("Boss@Corp.com")
    /\ cls_in.subject = Str("Newsletter hebdomadaire")
    /\ cls_in.content = Str("")

\* C11 as stated: classify_email is the first-match evaluation of the seven
\* rules: rules 1-4 give 'important' whatever rules 5-6 say, else rules 5-6 give
\* 'normal' whatever the sender domain is, else the sender-domain fallback
\* decides, 'normal' when the sender has no '@' or no listed domain matches.
FieldText(f) == IF f.kind = "str" THEN Lower(f.val) ELSE ""

Rule1(m) == FromImportantSender(m)

Rule2(m) ==
    \E k \in DOMAIN settings.important_keywords :
       Contains(FieldText(m.subject), settings.important_keywords[k])

Rule3(m) ==
    \E k \in DOMAIN settings.important_keywords :
       Contains(Prefix(FieldText(m.content), ContentPreviewLen),
                settings.important_keywords[k])

Rule4(m) ==
    \E p \in DOMAIN urgent_patterns :
       ReSearchWords(urgent_patterns[p],
                     FieldText(m.subject) \o " "
                        \o Prefix(FieldText(m.content), ContentPreviewLen))

Rule5(m) == WithNormalKeyword(m)

Rule6(m) ==
    \E p \in DOMAIN normal_patterns :
       ReSearchWords(normal_patterns[p],
                     FieldText(m.subject) \o " "
                        \o Prefix(FieldText(m.content), NormalPreviewLen))

Rule7(m) ==
    LET sender == FieldText(m.sender)
    IN  IF /\ InChars("@", sender)
           /\ \E d \in DOMAIN important_domains :
                 Contains(SplitSecond(sender, "@"), important_domains[d])
        THEN "important"
        ELSE "normal"

FirstMatch(m) ==
    IF Rule1(m) \/ Rule2(m) \/ Rule3(m) \/ Rule4(m) THEN "important"
    ELSE IF Rule5(m) \/ Rule6(m) THEN "normal"
    ELSE Rule7(m)

C11_Original ==
    (cls_out # "") => cls_out = FirstMatch(cls_in)

\* C11 amended: the same, for messages whose subject, sender and content are
\* strings or absent.
C11_FirstMatch ==
    (cls_out # "" /\ ~Faulty(cls_in)) => cls_out = FirstMatch(cls_in)

\* a newsletter from an important domain: rule 5 decides before rule 7
C11_Witness ==
    /\ cls_out = "normal"
    /\ cls_in.subject = Str("Newsletter hebdomadaire")
    /\ cls_in.sender = Str("hr@company.com")
    /\ cls_in.content = Str("")
    /\ Rule5(cls_in)
    /\ Rule7(cls_in) = "important"

\* C12: when the search finds more messages than max_emails_per_batch, the
\* batch handed to the pipeline is exactly the last max_emails_per_batch
\* message ids of the search result, for every batch size.
C12_BatchCap ==
    \A c \in Ctx :
       (run[c].pc \in {"check", "save", "logcls", "act", "logact"}
           /\ Len(SearchResult) > settings.max_emails_per_batch)
          => run[c].batch = SubSeq(SearchResult,
                                   Len(SearchResult) - settings.max_emails_per_batch + 1,
                                   Len(SearchResult))

\* C13: the auto_reply_sent and notification_sent flags of a Record are
\* monotonic: no step of a pipeline run, a resend, a delete or a sweep takes a
\* Record whose flag is true to the same Record with the flag false.
C13_FlagsMonotonic ==
    [][ \A r \in emails : \A q \in emails' :
           (q.id = r.id)
              => /\ r.auto_reply_sent => q.auto_reply_sent
                 /\ r.notification_sent => q.notification_sent ]_vars

\* a notification was resent for a Record whose flag the pipeline had set, and
\* a second run has gone over the recorded messages
C13_Witness ==
    /\ runs_started = 2
    /\ run["main"].pc = "finish"
    /\ api.pc = "idle" /\ api.resp = 200
    /\ \E r \in emails : r.notification_sent /\ sink[r.uid].resend = 1

\* a step of thread c that leaves the current message counted as failed
FailedStep(c) ==
    /\ run[c].pc \in {"check", "save", "logcls", "act", "logact"}
    /\ run'[c].pc \in {"check", "finish"}
    /\ run'[c].i = run[c].i + 1
    /\ run'[c].count = run[c].count

\* the entry a step appended to processing_logs has the given status
Appended(status) ==
    /\ Len(logs') = Len(logs) + 1
    /\ SubSeq(logs', 1, Len(logs)) = logs
    /\ logs'[Len(logs')].status = status

SentFlag(r) == IF r.classification = "normal" THEN r.auto_reply_sent ELSE r.notification_sent

\* C14: when save_email returns no Record for a message, that step appends no
\* audit entry, calls no ActionSink, counts the
\* message as failed and moves to the next message; and audit entries and
\* ActionSink calls only ever come from a message for which save_email
\* returned a Record.
C14_SaveFailStep ==
    \A c \in Ctx :
       (run[c].pc = "save" /\ run'[c] # run[c] /\ run'[c].pc # "logcls")
          => /\ FailedStep(c)
             /\ logs' = logs
             /\ sink' = sink

C14_EffectsNeedRecord ==
    (logs' # logs \/ sink' # sink)
       => \E c \in Ctx : run[c].pc \in {"logcls", "act", "logact"} /\ run[c].rec # 0

C14_PersistFailure == [][C14_SaveFailStep /\ C14_EffectsNeedRecord]_vars

\* the first message of the batch could not be saved, was counted as failed and
\* left no trace; the second message was recorded and acted on
C14_Witness ==
    /\ runs_started = 1
    /\ run["main"].pc = "finish"
    /\ Len(run["main"].batch) >= 2
    /\ run["main"].count = Len(run["main"].batch) - 1
    /\ ~HasRecord(_parse_email(run["main"].batch[1]).uid)
    /\ sink[_parse_email(run["main"].batch[1]).uid].pipeline = 0
    /\ HasRecord(_parse_email(run["main"].batch[2]).uid)
    /\ Len(logs) = 2 * (Len(run["main"].batch) - 1)

\* C15: when the ActionSink call for a message recorded by this run fails, the
\* pipeline appends the entry {<action>, error} for the Record, counts the
\* message as failed, and the Record stays in the table with its category and
\* with the sent flag false.
C15_DispatchFailure ==
    [][ \A c \in Ctx :
           (run[c].pc = "logact" /\ run'[c] # run[c] /\ ~run[c].sent /\ run[c].created)
              => /\ FailedStep(c)
                 /\ Appended("error")
                 /\ logs'[Len(logs')] =
                       LogEntry(run[c].rec, ActionName(run[c].cls), "error")
                 /\ \E r \in emails' :
                       /\ r.id = run[c].rec
                       /\ r.uid = CurUid(c)
                       /\ r.classification = run[c].cls
                       /\ ~SentFlag(r) ]_vars

\* the dispatch for the first message failed: its Record is there, unflagged,
\* with an error entry, and the run went on
C15_Witness ==
    /\ runs_started = 1
    /\ run["main"].pc = "check"
    /\ run["main"].i = 2
    /\ run["main"].count = 0
    /\ \E r \in RowsByUid(emails, _parse_email(run["main"].batch[1]).uid) :
          /\ ~SentFlag(r)
          /\ HasLog(r.id, ActionName(r.classification), "error")
          /\ sink[r.uid].pipeline = 1

\* C16: whenever the pipeline appends a success entry for an action on a
\* Record, the sent flag of that Record is true in the table at that point.
C16_SuccessEntryHasFlag ==
    [][ \A c \in Ctx :
           (run[c].pc = "logact" /\ run'[c] # run[c] /\ Appended("success"))
              => \E r \in emails' : r.id = run[c].rec /\ SentFlag(r) ]_vars

\* C17: every step that leaves a message counted as failed appends an audit
\* entry with status 'error'.
C17_FailureAudited ==
    [][ \A c \in Ctx : (run'[c] # run[c] /\ FailedStep(c)) => Appended("error") ]_vars

\* C18: a run never goes on to fetch without the connection, and when
\* fetcher.connect() fails process_emails returns at once: no Record created or
\* changed, no audit entry, no ActionSink call.
C18_ConnectStep ==
    \A c \in Ctx :
       (run[c].pc = "connect" /\ run'[c] # run[c] /\ ~connected')
          => /\ run'[c].pc = "idle"
             /\ run'[c].exit = "no_connection"
             /\ emails' = emails
             /\ logs' = logs
             /\ sink' = sink

C18_NoConnectionNoRun ==
    /\ [](\A c \in Ctx : run[c].pc = "fetch" => connected)
    /\ [][C18_ConnectStep]_vars

\* the second run could not connect and returned; the Store holds what the
\* first run left
C18_Witness ==
    /\ runs_started = 2
    /\ run["main"].pc = "idle"
    /\ run["main"].exit = "no_connection"
    /\ ~connected
    /\ \A u \in Uids : HasRecord(u) /\ sink[u].pipeline <= 1

\* C19: every activation of process_emails that got past connect() calls
\* fetcher.disconnect() before it returns or unwinds: with an empty batch,
\* after the loop, and when an exception leaves the loop.
C19_AlwaysDisconnect ==
    [][ \A c \in Ctx :
           (run[c].pc \notin {"idle", "connect"} /\ run'[c].pc = "idle"
               /\ run'[c].exit # "killed")
              => run'[c].released ]_vars

\* an activation that fetched nothing has returned through the finally clause
C19_Witness ==
    /\ run["main"].pc = "idle"
    /\ run["main"].exit = "no_emails"
    /\ run["main"].released
    /\ wpc = "loop"

\* C20: the worker stops only when no run is in flight: a shutdown that arrives
\* during a run waits until the batch has been iterated to its end.
C20_DrainBeforeStop ==
    [][ (wpc \in {"run", "loop"} /\ wpc' \in {"stopped", "killed"})
           => ~InFlight("main") ]_vars

\* C21: once stop() has been called no activation of process_emails begins,
\* neither from the timer nor from force_check().
C21_NoRunAfterStop ==
    [][ stopped => runs_started' = runs_started ]_vars

\* the category of Record r calls for an ActionSink call
NeedsAction(r) ==
    r.classification = "important"
       \/ (r.classification = "normal" /\ settings.auto_reply_enabled)

\* C22: whatever crashes happened before, once a run has gone through its
\* batch no message of the batch has a Record whose action was never attempted.
C22_NoOrphanRecord ==
    \A c \in Ctx :
       (run[c].pc = "finish" /\ run[c].batch # <<>>)
          => \A u \in BatchUids(c) :
                \A r \in RowsByUid(emails, u) :
                   NeedsAction(r) => sink[u].pipeline >= 1

ResendCalls(s) == [u \in Uids |-> s[u].resend]

C24_ResendStep ==
    /\ (ResendCalls(sink') # ResendCalls(sink))
          => \E r \in emails :
                /\ r.id = api.id
                /\ r.classification = "important"
                /\ sink'[r.uid].resend = sink[r.uid].resend + 1
                /\ \A u \in Uids \ {r.uid} : sink'[u].resend = sink[u].resend
    /\ (api.pc = "idle" /\ api'.op = "resend" /\ api_calls' = api_calls + 1
           /\ \A r \in RowsById(emails, api'.id) : r.classification # "important")
          => /\ api'.pc = "idle"
             /\ api'.resp \in {400, 404, 500}
             /\ sink' = sink
             /\ emails' = emails
             /\ logs' = logs

C24_ResendOnlyImportant == [][C24_ResendStep]_vars

\* a resend request for a Record of category 'normal' was refused
C24_Witness ==
    /\ api.op = "resend"
    /\ api.pc = "idle"
    /\ api.resp = 400
    /\ \E r \in RowsById(emails, api.id) :
          r.classification = "normal" /\ sink[r.uid].resend = 0

\* C25: a retention sweep with a cutoff deletes exactly the Records received
\* before the cutoff, reports their number, and leaves the others unchanged.
C25_SweepExact ==
    [][ (api.pc = "idle" /\ api'.op = "cleanup" /\ api_calls' = api_calls + 1)
           => /\ emails' = emails \ OlderThan(emails, api'.days)
              /\ api'.deleted = Cardinality(OlderThan(emails, api'.days)) ]_vars

\* C26: the audit log is append-only: after every step of a run, a resend or a
\* deletion of a Record, the entries there were are still there, unchanged and
\* in the same order, as a prefix of the log.
C26_AppendOnly ==
    [][ /\ Len(logs') >= Len(logs)
        /\ SubSeq(logs', 1, Len(logs)) = logs ]_vars

\* a Record with audit entries was deleted and its entries are still in the log
C26_Witness ==
    /\ api.op = "delete"
    /\ api.resp = 200
    /\ RowsById(emails, api.id) = {}
    /\ \E k \in DOMAIN logs : logs[k].email_id = api.id

C28_DisabledReplyNoOp ==
    [][ \A c \in Ctx :
           (run[c].pc = "act" /\ run'[c] # run[c] /\ run[c].created
               /\ run[c].cls = "normal" /\ ~settings.auto_reply_enabled)
              => /\ sink' = sink
                 /\ logs' = logs
                 /\ run'[c].count = run[c].count + 1
                 /\ run'[c].i = run[c].i + 1
                 /\ \E r \in emails' :
                       /\ r.id = run[c].rec
                       /\ r.uid = CurUid(c)
                       /\ r.classification = "normal"
                       /\ ~r.auto_reply_sent ]_vars

\* auto-reply is off and the first run has counted a new 'normal' message as
\* processed without any ActionSink call
C28_Witness ==
    /\ ~settings.auto_reply_enabled
    /\ runs_started = 1
    /\ run["main"].pc = "check"
    /\ run["main"].i = 2
    /\ run["main"].count = 1
    /\ \E r \in RowsByUid(emails, _parse_email(run["main"].batch[1]).uid) :
          /\ r.classification = "normal"
          /\ ~r.auto_reply_sent
          /\ sink[r.uid].pipeline = 0

\* a step of thread c that ends the current message as succeeded: the skip of
\* a message that has a Record, a dispatch that succeeded, or the no-op of a
\* 'normal' message with auto-reply disabled
SucceededStep(c) ==
    /\ run'[c].i = run[c].i + 1
    /\ \/ run[c].pc = "check" /\ HasRecord(CurUid(c))
       \/ run[c].pc = "logact" /\ run[c].sent
       \/ run[c].pc = "act" /\ run[c].cls = "normal" /\ ~settings.auto_reply_enabled

\* C29: in the summary of a completed run the attempted count is the size of
\* the batch, the succeeded count (processed_count) goes up by one exactly at
\* the messages that were skipped, had their action succeed or were a
\* disabled-auto-reply no-op, and succeeded never exceeds attempted.
C29_CountStep ==
    \A c \in Ctx :
       (run[c].pc \in {"check", "save", "logcls", "act", "logact"}
           /\ run'[c].pc # "idle" /\ run'[c] # run[c])
          => /\ run'[c].count = run[c].count + (IF SucceededStep(c) THEN 1 ELSE 0)
             /\ run'[c].count <= run'[c].i - 1

C29_Summary ==
    /\ [](\A c \in Ctx :
             (run[c].pc = "finish" /\ run[c].batch # <<>>)
                => /\ run[c].i - 1 = Len(run[c].batch)
                   /\ run[c].count <= Len(run[c].batch))
    /\ [][C29_CountStep]_vars

\* the second run skipped the first message and failed to act on another one
C29_Witness ==
    /\ runs_started = 2
    /\ run["main"].pc = "finish"
    /\ Len(run["main"].batch) >= 2
    /\ run["main"].count = Len(run["main"].batch) - 1
    /\ sink[_parse_email(run["main"].batch[1]).uid].pipeline = 1

\* C30: a message that has a Record and whose dispatch failed is not dispatched
\* again by the pipeline, and the pipeline never sets its sent flag.
FailedDispatch(r) ==
    /\ HasLog(r.id, ActionName(r.classification), "error")
    /\ ~SentFlag(r)

C30_NoAutomaticRetry ==
    [][ \A r \in emails :
           (FailedDispatch(r) /\ api' = api)
              => /\ sink'[r.uid].pipeline = sink[r.uid].pipeline
                 /\ \A q \in emails' : q.id = r.id => ~SentFlag(q) ]_vars

\* C31: in every reachable state a Record of category 'normal' has
\* notification_sent false and a Record of category 'important' has
\* auto_reply_sent false.
C31_CategoryFlags ==
    \A r \in emails :
       /\ r.classification = "normal" => ~r.notification_sent
       /\ r.classification = "important" => ~r.auto_reply_sent

\* the fields of a Record that are written once, when it is created
Immutable(r) ==
    [ uid |-> r.uid, classification |-> r.classification, subject |-> r.subject,
      sender |-> r.sender, recipient |-> r.recipient,
      date_received |-> r.date_received, content |-> r.content ]

\* C32: no step of a pipeline run or of a resend changes the uid, category,
\* subject, sender, recipient, received date or content of a Record that is in
\* the table; a step that touches a Record changes its two sent flags only.
C32_FrameStep ==
    \A r \in emails : \A q \in emails' :
       (q.id = r.id) => Immutable(q) = Immutable(r)

C32_ImmutableFields == [][C32_FrameStep]_vars

\* a resend has set the flag of a Record the pipeline had created and failed
\* to notify; the Record still carries the fields of its message
C32_Witness ==
    /\ api.op = "resend" /\ api.pc = "idle" /\ api.resp = 200
    /\ \E r \in RowsById(emails, api.id) :
          /\ r.notification_sent
          /\ sink[r.uid].pipeline = 1 /\ sink[r.uid].resend = 1
          /\ HasLog(r.id, "notification_sent", "error")
          /\ Immutable(r) = Immutable(NewEmail({}, r.uid, "important"))

\* C33: a resend whose notification went out sets notification_sent of the
\* Record to true, appends {notification_resent, success} and answers 200; a
\* resend whose notification failed appends {notification_resent, error},
\* answers with an error status and leaves the Records as they were.
C33_ResendStep ==
    /\ (api.pc = "rs_mark" /\ api'.pc = "idle")
          => /\ api'.resp = 200
             /\ Appended("success")
             /\ logs'[Len(logs')] = LogEntry(api.id, "notification_resent", "success")
             /\ \A r \in RowsById(emails, api.id) :
                   \E q \in RowsById(emails', api.id) :
                      q.notification_sent /\ Immutable(q) = Immutable(r)
    /\ (api.pc = "rs_notify" /\ api'.pc = "idle")
          => /\ api'.resp >= 400
             /\ Appended("error")
             /\ logs'[Len(logs')] = LogEntry(api.id, "notification_resent", "error")
             /\ emails' = emails

C33_ResendOutcome == [][C33_ResendStep]_vars

\* C34: when fetch_new_emails fails after connect() succeeded, the run iterates
\* over nothing: the fetch step and the rest of the activation create no
\* Record, append no audit entry and call no ActionSink, and the activation
\* calls fetcher.disconnect() before it returns.
C34_FetchFailStep ==
    \A c \in Ctx :
       /\ (run[c].pc = "fetch" /\ run'[c] # run[c] /\ run'[c].pc # "check")
             => /\ run'[c].pc = "finish"
                /\ run'[c].batch = <<>>
                /\ run'[c].count = 0
                /\ emails' = emails /\ logs' = logs /\ sink' = sink
       /\ (run[c].pc = "finish" /\ run[c].batch = <<>> /\ run'[c] # run[c])
             => /\ run'[c].pc = "idle"
                /\ run'[c].exit = "no_emails"
                /\ run'[c].released
                /\ emails' = emails /\ logs' = logs /\ sink' = sink

C34_FetchFailureAborts == [][C34_FetchFailStep]_vars

\* the fetch of the second run failed: the run has returned through the
\* finally clause and the Store and the ActionSink hold what the first run left
C34_Witness ==
    /\ runs_started = 2
    /\ run["main"].pc = "idle"
    /\ run["main"].exit = "no_emails"
    /\ run["main"].released
    /\ Len(logs) = 2 * NumMessages
    /\ \A u \in Uids : HasRecord(u) /\ sink[u].pipeline = 1

\* the positions of the entries of Record id with the given action
EntriesOf(id, action) ==
    { k \in DOMAIN logs : logs[k].email_id = id /\ logs[k].action = action }

\* C35: for a message newly recorded by a run, the run appends the entry
\* {classified, success} in one step, before the ActionSink call; the action
\* step appends nothing; the step after it appends at most one entry, an action
\* entry of that Record, and ends the message; so the classified entry precedes
\* every action entry of the Record and the run appends one classified entry
\* and at most one action entry for it.
C35_AuditStep ==
    \A c \in Ctx :
       (run[c].created /\ run'[c] # run[c])
          => /\ (run[c].pc = "logcls")
                   => /\ logs' = Append(logs, LogEntry(run[c].rec, "classified", "success"))
                      /\ run'[c].pc = "act"
             /\ (run[c].pc = "act")
                   => /\ logs' = logs
                      /\ run'[c].pc = "logact" \/ run'[c].i = run[c].i + 1
             /\ (run[c].pc = "logact")
                   => /\ run'[c].i = run[c].i + 1
                      /\ logs' \in { logs,
                                     Append(logs, LogEntry(run[c].rec, ActionName(run[c].cls),
                                                           "success")),
                                     Append(logs, LogEntry(run[c].rec, ActionName(run[c].cls),
                                                           "error")) }

C35_ClassifiedFirst ==
    \A c \in Ctx :
       (run[c].created /\ run[c].pc \in {"act", "logact"})
          => /\ Cardinality(EntriesOf(run[c].rec, "classified")) = 1
             /\ EntriesOf(run[c].rec, ActionName(run[c].cls)) = {}

C36_ReturnStep ==
    (InFlight("main") /\ run'["main"].pc = "idle"
        /\ run'["main"].exit \in {"no_connection", "no_emails", "completed"}
        /\ ~stopped')
       => /\ wpc' = "loop"
          /\ running /\ running'

C36_LoopAlive ==
    (wpc = "loop" /\ ~stopped)
       => /\ running
          /\ (runs_started < MaxRuns) => ENABLED TimerFire

C36_FailedRunReturns == [](C36_LoopAlive) /\ [][C36_ReturnStep]_vars

\* the timer has started a second activation after a first one that failed
\* before it recorded anything
C36_Witness ==
    /\ runs_started = 2
    /\ wpc = "run"
    /\ running
    /\ run["main"].pc = "connect"
    /\ emails = {} /\ logs = <<>>
    /\ \A u \in Uids : sink[u].pipeline = 0

\* C37: with maintenance deletions between the runs, the pipeline still calls
\* the ActionSink at most once per message uid: a dispatch step for a uid only
\* happens while the ActionSink history holds no pipeline call for that uid.
C37_OneDispatchDespiteDelete ==
    [][ \A u \in Uids :
           (sink'[u].pipeline > sink[u].pipeline) => sink[u].pipeline = 0 ]_vars

\* C38: a resend request and a pipeline run never both push a notification for
\* the same 'important' message while notification_sent of its Record is still
\* false: no state has the run past a successful notify_important_email and
\* the request past a successful one for the same uid with the flag unset.
C38_SinglePushWhileUnflagged ==
    \A c \in Ctx :
       ~ ( /\ run[c].pc = "logact" /\ run[c].sent /\ run[c].cls = "important"
           /\ api.pc = "rs_mark" /\ api.uid = CurUid(c)
           /\ \E r \in RowsByUid(emails, api.uid) : ~r.notification_sent )

\* C39: in every reachable state of the Store the aggregate counts agree:
\* normal_emails + important_emails = total_emails, auto_replies_sent <=
\* normal_emails, notifications_sent <= important_emails, and
\* auto_replies_sent + notifications_sent <= total_emails.
C39_StatsConsistent ==
    LET stats == get_processing_stats(emails)
    IN  /\ stats.normal_emails + stats.important_emails = stats.total_emails
        /\ stats.auto_replies_sent <= stats.normal_emails
        /\ stats.notifications_sent <= stats.important_emails
        /\ stats.auto_replies_sent + stats.notifications_sent <= stats.total_emails

\* the mailbox test, the SMTP test or the database test met a failure
RequiredTestFailed == \E k \in DOMAIN startup : k # 3 /\ ~startup[k]

\* C40: when the mailbox, the SMTP or the database test of the start-up meets
\* a failure, start() returns without scheduling: no activation of
\* process_emails ever begins and running stays false.
C40_FailedTestNoStart ==
    RequiredTestFailed
       => /\ wpc = "returned"
          /\ ~running
          /\ runs_started = 0
          /\ ~InFlight("main")

====
